---- MODULE Spec2Model ----
(***************************************************************************)
(* A model of bin/macos-scan.py: the registry of scanned paths, the area   *)
(* summarizers that fill it, and crawl_remaining_paths, the pruning crawl  *)
(* that walks what is left.  Paths are strings, handled character by       *)
(* character as the Python code handles them.                              *)
(***************************************************************************)
EXTENDS Integers, Sequences, FiniteSets, TLC

VARIABLES
    fs,                        \* the filesystem the run sees (never written)
    brew_casks,                \* what "brew list --cask" returned
    base,                      \* the argument of crawl_remaining_paths
    pc,                        \* where the driver is
    scanned_paths,
    global_system_custom_apps,
    global_system_brew_apps,
    global_user_manual,
    global_user_gray,
    global_top_level_gray,
    global_remaining_gray,
    global_ignored_paths,
    stack,                     \* os.walk: directories still to be walked
    cur,                       \* os.walk: the (root, dirs) being processed
    walked,                    \* history: how often os.walk has yielded each root
    evalLog,                   \* history: every directory the crawl evaluated
    query,                     \* the last descendant query and its answer
    firstRun                   \* the globals a first crawl left, once a second is run

vars == <<fs, brew_casks, base, pc, scanned_paths, global_system_custom_apps,
          global_system_brew_apps, global_user_manual, global_user_gray,
          global_top_level_gray, global_remaining_gray, global_ignored_paths,
          stack, cur, walked, evalLog, query, firstRun>>

(***************************************************************************)
(* Bounds of the model.                                                    *)
(***************************************************************************)
MaxPreRegistered == 2      \* paths in the registry when a bare crawl starts
MaxRegistered == 3         \* paths registered in the registry-only runs
MaxLinkHops == 3           \* symbolic links followed while resolving a path
MaxLinks == 2              \* symbolic links in the filesystem
MaxUnreadable == 1         \* directories whose listing fails

(***************************************************************************)
(* Strings.                                                                *)
(***************************************************************************)
sep == "/"

Char(s, i) == SubSeq(s, i, i)

StartsWith(s, prefix) ==
    /\ Len(prefix) <= Len(s)
    /\ SubSeq(s, 1, Len(prefix)) = prefix

EndsWith(s, suffix) ==
    /\ Len(suffix) <= Len(s)
    /\ SubSeq(s, Len(s) - Len(suffix) + 1, Len(s)) = suffix

\* Position of the first separator of s at or after i, or 0
RECURSIVE FindSep(_, _)
FindSep(s, i) ==
    IF i > Len(s) THEN 0
    ELSE IF Char(s, i) = sep THEN i
    ELSE FindSep(s, i + 1)

\* Position of the last separator of s at or before i, or 0
RECURSIVE RFindSep(_, _)
RFindSep(s, i) ==
    IF i < 1 THEN 0
    ELSE IF Char(s, i) = sep THEN i
    ELSE RFindSep(s, i - 1)

\* str.split("/")
RECURSIVE Split(_)
Split(s) ==
    LET k == FindSep(s, 1)
    IN  IF k = 0 THEN <<s>>
        ELSE <<SubSeq(s, 1, k - 1)>> \o Split(SubSeq(s, k + 1, Len(s)))

\* "/".join(comps)
RECURSIVE JoinSep(_)
JoinSep(comps) ==
    IF comps = <<>> THEN ""
    ELSE IF Len(comps) = 1 THEN comps[1]
    ELSE comps[1] \o sep \o JoinSep(Tail(comps))

UpperCase == <<"A","B","C","D","E","F","G","H","I","J","K","L","M",
               "N","O","P","Q","R","S","T","U","V","W","X","Y","Z">>
LowerCase == <<"a","b","c","d","e","f","g","h","i","j","k","l","m",
               "n","o","p","q","r","s","t","u","v","w","x","y","z">>

LowerChar(c) ==
    IF \E i \in 1..26 : UpperCase[i] = c
    THEN LowerCase[CHOOSE i \in 1..26 : UpperCase[i] = c]
    ELSE c

\* str.lower()
RECURSIVE Lower(_)
Lower(s) ==
    IF s = "" THEN ""
    ELSE LowerChar(Char(s, 1)) \o Lower(SubSeq(s, 2, Len(s)))

(***************************************************************************)
(* os.path                                                                 *)
(***************************************************************************)
\* The component loop of posixpath.normpath
RECURSIVE NormComps(_, _, _)
NormComps(comps, new_comps, initial_slashes) ==
    IF comps = <<>> THEN new_comps
    ELSE LET comp == Head(comps)
             n == Len(new_comps)
         IN  IF comp = "" \/ comp = "."
             THEN NormComps(Tail(comps), new_comps, initial_slashes)
             ELSE IF \/ comp # ".."
                     \/ (initial_slashes = 0 /\ n = 0)
                     \/ (n > 0 /\ new_comps[n] = "..")
             THEN NormComps(Tail(comps), Append(new_comps, comp), initial_slashes)
             ELSE IF n > 0
             THEN NormComps(Tail(comps), SubSeq(new_comps, 1, n - 1), initial_slashes)
             ELSE NormComps(Tail(comps), new_comps, initial_slashes)

\* posixpath.normpath
NormPathOf(path) ==
    IF path = "" THEN "."
    ELSE LET initial_slashes ==
                 IF StartsWith(path, "//") /\ ~StartsWith(path, "///") THEN 2
                 ELSE IF StartsWith(path, "/") THEN 1
                 ELSE 0
             joined == JoinSep(NormComps(Split(path), <<>>, initial_slashes))
             out == (IF initial_slashes = 2 THEN "//"
                     ELSE IF initial_slashes = 1 THEN "/" ELSE "") \o joined
         IN  IF out = "" THEN "." ELSE out

\* os.path.join(a, b)
join(a, b) ==
    IF StartsWith(b, sep) THEN b
    ELSE IF a = "" \/ EndsWith(a, sep) THEN a \o b
    ELSE a \o sep \o b

\* os.path.basename(p)
basename(p) == SubSeq(p, RFindSep(p, Len(p)) + 1, Len(p))

\* The directory holding p, for a normalized absolute p
Parent(p) ==
    LET i == RFindSep(p, Len(p))
    IN  IF i <= 1 THEN sep ELSE SubSeq(p, 1, i - 1)

(***************************************************************************)
(* The filesystems of the model: one tree of directories and files, with   *)
(* the first few of LinkCandidates as symbolic links and up to             *)
(* MaxUnreadable directories whose listing is refused.  The variable fs    *)
(* holds which links and which unreadable directories there are; Disk is   *)
(* the filesystem that makes: Disk.kind maps every real entry to "dir",    *)
(* "file" or "link", Disk.target maps a link to what it names and          *)
(* Disk.entries maps a directory to the names in it.                       *)
(***************************************************************************)
TreeDirs ==
    {"/",
     "/Applications", "/Applications/Foo.app", "/Applications/Safari.app",
     "/Applications/Bar.app", "/Applications/Utilities",
     "/Users", "/Users/Shared", "/Users/alice", "/Users/bob",
     "/Users/alice/Desktop", "/Users/alice/Desktop/old",
     "/Users/alice/Documents", "/Users/alice/Documents/Work",
     "/Users/alice/Documents/Adobe",
     "/Users/alice/Library", "/Users/alice/Library/Application Support",
     "/Users/alice/Library/Application Support/Foo",
     "/Users/alice/Library/Application Support/Bar",
     "/Users/alice/.cache", "/Users/alice/Projects",
     "/Users/bob/Downloads",
     "/System", "/data", "/data/sub", "/data/sub/deep"}

TreeFiles ==
    {"/Users/alice/Desktop/note.txt", "/Users/alice/Documents/.DS_Store",
     "/Users/alice/.zshrc", "/data/readme"}

LinkCandidates == <<(<<"/Users/alice/lnk", "/data">>), (<<"/data/up", "/">>)>>

UnreadableCandidates == {"/Applications", "/Users/alice/Documents", "/data"}

Min(a, b) == IF a < b THEN a ELSE b

FsChoices ==
    {[links |-> {LinkCandidates[i] : i \in 1..k}, unreadable |-> U] :
        k \in 0..Min(MaxLinks, Len(LinkCandidates)),
        U \in {X \in SUBSET UnreadableCandidates : Cardinality(X) <= MaxUnreadable}}

BuildFS(c) ==
    LET linkPaths == {l[1] : l \in c.links}
        nodes == TreeDirs \cup TreeFiles \cup linkPaths
    IN  [kind |-> [p \in nodes |->
                      IF p \in TreeDirs THEN "dir"
                      ELSE IF p \in TreeFiles THEN "file" ELSE "link"],
         target |-> [p \in linkPaths |-> (CHOOSE l \in c.links : l[1] = p)[2]],
         entries |-> [d \in TreeDirs |->
                         {basename(q) : q \in {n \in nodes : n # sep /\ Parent(n) = d}}],
         unreadable |-> c.unreadable]

FsTable == [c \in FsChoices |-> BuildFS(c)]

Disk == FsTable[fs]

\* What a bare call of crawl_remaining_paths may be given
CrawlBases == {"/", "/Users/alice", "/Users/alice/", "/Users/alice/lnk", "/data"}

\* What the registry may hold when crawl_remaining_paths is called on its own
RegistryCandidates ==
    {"/Users/alice/Desktop",
     "/Users/alice/Library/Application Support/Foo",
     "/Users/alice/Documents/Work",
     "/Users/alice/lnk",
     "/data",
     "/data/sub"}

\* The paths whose normal form and resolution are tabulated once
KnownPaths ==
    TreeDirs \cup TreeFiles \cup CrawlBases \cup RegistryCandidates
    \cup {join(join("/Users", u), f) :
            u \in {"alice", "bob", "Shared"},
            f \in {"Desktop", "Downloads", "Library/Application Support",
                    "Documents", "Music", "Movies", "Pictures"}}
    \cup {LinkCandidates[i][1] : i \in 1..Len(LinkCandidates)}
    \cup UNION {{join(LinkCandidates[i][1], basename(q)) :
                    q \in {n \in TreeDirs \cup TreeFiles :
                              n # sep /\ Parent(n) = LinkCandidates[i][2]}} :
                i \in 1..Len(LinkCandidates)}

(***************************************************************************)
(* What the operating system answers about a path.                         *)
(***************************************************************************)
NoPath == ""

\* The non-empty components of a path
SegmentsOf(p) == SelectSeq(Split(p), LAMBDA c : c # "")

SegmentTable == [p \in KnownPaths |-> SegmentsOf(p)]

Segments(p) == IF p \in KnownPaths THEN SegmentTable[p] ELSE SegmentsOf(p)

\* q lies strictly below p in the tree of paths (by components)
IsStrictDescendant(q, p) ==
    LET a == Segments(p)
        b == Segments(q)
    IN  Len(b) > Len(a) /\ SubSeq(b, 1, Len(a)) = a

NormTable == [p \in KnownPaths |-> NormPathOf(p)]

\* os.path.normpath(path)
normpath(path) == IF path \in KnownPaths THEN NormTable[path] ELSE NormPathOf(path)

\* The entry p names once every symbolic link on the way is followed
RECURSIVE RealPathOf(_, _, _)
RealPathOf(f, p, hops) ==
    IF p = sep THEN sep
    ELSE LET par == RealPathOf(f, Parent(p), hops)
             q == join(par, basename(p))
         IN  IF par = NoPath \/ q \notin DOMAIN f.kind THEN NoPath
             ELSE IF f.kind[par] # "dir" THEN NoPath
             ELSE IF f.kind[q] = "link"
                  THEN IF hops = 0 THEN NoPath
                       ELSE RealPathOf(f, f.target[q], hops - 1)
             ELSE q

RealTable ==
    [c \in FsChoices |->
        [p \in KnownPaths |-> RealPathOf(FsTable[c], NormPathOf(p), MaxLinkHops)]]

realpath(p) ==
    IF p \in KnownPaths THEN RealTable[fs][p]
    ELSE RealPathOf(Disk, normpath(p), MaxLinkHops)

\* os.path.islink(p) on the filesystem f: the last component is not followed
IsLinkOf(f, p) ==
    LET np == NormPathOf(p)
        par == RealPathOf(f, Parent(np), MaxLinkHops)
        q == join(par, basename(np))
    IN  /\ np # sep
        /\ ~EndsWith(p, sep)
        /\ par # NoPath
        /\ q \in DOMAIN f.kind
        /\ f.kind[q] = "link"

LinkTable == [c \in FsChoices |-> {p \in KnownPaths : IsLinkOf(FsTable[c], p)}]

islink(p) == IF p \in KnownPaths THEN p \in LinkTable[fs] ELSE IsLinkOf(Disk, p)

\* os.path.isdir(p): links are followed
isdir(p) ==
    LET r == realpath(p)
    IN  r # NoPath /\ Disk.kind[r] = "dir"

\* os.listdir(p) returns (it raises otherwise)
CanList(p) == isdir(p) /\ realpath(p) \notin Disk.unreadable

\* os.listdir(p): the names of the entries of p
listdir(p) == Disk.entries[realpath(p)]

(***************************************************************************)
(* Configuration.                                                          *)
(***************************************************************************)
INCLUDE_ROOT_DIRS == <<"/Users", "/Applications", "/Volumes">>

IGNORED_ROOT_DIRS ==
    <<"/System", "/private", "/etc", "/cores", "/Volumes", "/Recovery",
      "/home", "/usr", "/.resolve", "/bin", "/sbin", "/var", "/Library",
      "/.vol", "/opt", "/dev", "/Volumes",
      "/.nofollow", "/tmp">>

DEFAULT_APPS_WHITELIST ==
    {"Safari", "Mail", "Calendar", "FaceTime",
     "Messages", "Notes", "App Store", "System Preferences",
     "Finder", "Contacts", "Reminders", "Maps",
     "Photos", "Preview", "iTunes", "Music", "TV",
     "Numbers", "Pages", "Keynote", "iMovie", "GarageBand",
     "Books", "Podcasts", "News", "Stocks", "Voice Memos",
     "Home", "Activity Monitor", "Terminal", "Console",
     "Disk Utility", "Script Editor", "TextEdit", "Calculator",
     "Photo Booth", "Automator", "Dictionary",
     "Font Book", "Stickies", "Grapher", "Digital Color Meter",
     "QuickTime Player", "DVD Player", "Chess", "Migration Assistant",
     "Feedback Assistant", "ColorSync Utility", "Audio MIDI Setup",
     "Bluetooth File Exchange", "Boot Camp Assistant"}

INCLUDE_USER_FOLDERS == <<"Desktop", "Downloads">>

SCAN_USER_GRAY_AREA_FOLDERS ==
    <<"Library/Application Support", "Documents", "Music", "Movies", "Pictures">>

IGNORE_USER_FOLDERS ==
    {".Trash",".ansible",".asdf",".aws",".berkshelf",".bundle",".cache",".cups",
     ".docker",".dropbox",".npm",".vscode",".yarn",".zsh_sessions","Native Instruments",
     "Accessibility","Accounts","AppleMediaServices","AddressBook","Adobe","Alfred",
     "App Store","Asana","AvastHUB","Blender","BraveSoftware","CallHistoryDB",
     "CallHistoryTransactions","ChatGPT","Chromium","CloudDocs","Code","contactsd",
     "ControlCenter","CrashReporter","DifferentialPrivacy","DiskImages","Dock",
     "Docker Desktop","Dropbox","FaceTime","FileProvider","Firefox","GitHub Desktop",
     "Google","homeenergyd","icdd","iCloud","identityservicesd","iMazing","iMovie",
     "io.sentry","iTerm2","JetBrains","Knowledge","Microsoft","MobileSync","Mozilla",
     "networkserviceproxy","org.videolan.vlc","Postman",
     "privatecloudcomputed","Slack","Spotlight","stickersd","Sublime Text",
     "summary-events","SyncServices","tipsd","virtualenv","ZAP","zoom.us","Assistant",
     "Assistants","Audio","Autosave Information","Biome","Caches","Calendars",
     "CallServices","CloudStorage","ColorPickers","Colors","Compositions","Contacts",
     "ContainerManager","Containers","Cookies","CoreFollowUp","Daemon Containers",
     "DataAccess","DataDeliveryServices","DES","DoNotDisturb",
     "DuetExpertCenter","Favorites","Finance","FontCollections","Fonts","FrontBoard",
     "GameKit","Group Containers","HomeKit","HTTPStorages",
     "IdentityServices","Input Methods","IntelligencePlatform","Intents",
     "Internet Plug-Ins","iTunes","Keyboard","Keyboard Layouts","KeyboardServices",
     "Keychains","LanguageModeling","LaunchAgents","LockdownMode","Logs","Mail",
     "Messages","Metadata","Mobile Documents","News","NGL","Passes",
     "PersonalizationPortrait","Photos","PPM","PreferencePanes","Preferences",
     "Printers","PrivateCloudCompute","Python","QuickLook","Reminders","ResponseKit",
     "Safari","SafariSafeBrowsing","SafariSandboxBroker","Saved Application State",
     "Screen Savers","ScreenRecordings","Scripts","Services","Sharing","Shortcuts",
     "Sounds","Spelling","Staging","StatusKit","Stickers","studentd",
     "Suggestions","SyncedPreferences","Translation","Trial","UnifiedAssetFramework",
     "Weather","WebKit"}

\* should_ignore_name: IGNORED_NAME_PATTERNS is the one pattern ^\.
should_ignore_name(name) == StartsWith(name, ".")

(***************************************************************************)
(* The program's global objects, as one record g, and the functions that   *)
(* update them.  A dict is a function on its keys; a listing is the set of *)
(* the names listed.                                                       *)
(***************************************************************************)
EmptyDict == [k \in {} |-> {}]

Put(d, k, v) == [x \in (DOMAIN d) \cup {k} |-> IF x = k THEN v ELSE d[x]]

RECURSIVE FoldSet(_, _, _)
FoldSet(Op(_, _), acc, S) ==
    IF S = {} THEN acc
    ELSE LET x == CHOOSE y \in S : TRUE
         IN  FoldSet(Op, Op(acc, x), S \ {x})

RECURSIVE FoldSeq(_, _, _)
FoldSeq(Op(_, _), acc, s) ==
    IF s = <<>> THEN acc
    ELSE FoldSeq(Op, Op(acc, Head(s)), Tail(s))

Globals ==
    [scanned_paths |-> scanned_paths,
     global_system_custom_apps |-> global_system_custom_apps,
     global_system_brew_apps |-> global_system_brew_apps,
     global_user_manual |-> global_user_manual,
     global_user_gray |-> global_user_gray,
     global_top_level_gray |-> global_top_level_gray,
     global_remaining_gray |-> global_remaining_gray,
     global_ignored_paths |-> global_ignored_paths,
     raised |-> FALSE]

\* The module's globals as they are when it is loaded (lines 25-35)
SetGlobalsInit ==
    /\ global_system_custom_apps = {}
    /\ global_system_brew_apps = {}
    /\ global_user_manual = EmptyDict
    /\ global_user_gray = EmptyDict
    /\ global_top_level_gray = EmptyDict
    /\ global_remaining_gray = EmptyDict
    /\ global_ignored_paths = {}

\* The globals become g
SetGlobals(g) ==
    /\ scanned_paths' = g.scanned_paths
    /\ global_system_custom_apps' = g.global_system_custom_apps
    /\ global_system_brew_apps' = g.global_system_brew_apps
    /\ global_user_manual' = g.global_user_manual
    /\ global_user_gray' = g.global_user_gray
    /\ global_top_level_gray' = g.global_top_level_gray
    /\ global_remaining_gray' = g.global_remaining_gray
    /\ global_ignored_paths' = g.global_ignored_paths

\* A variant that registers nothing.  C15 tells it from
\* register_scanned_path.
register_nothing(g, path) == g

register_scanned_path(g, path) ==
    [g EXCEPT !.scanned_paths = @ \cup {normpath(path)}]

\* A variant with the prefix test turned round: it asks for a registered
\* ancestor.  C3 tells it from scanned_path_exists_as_subdirectory.
registered_ancestor_exists(g, path) ==
    \E scanned_path \in g.scanned_paths : StartsWith(path, scanned_path \o sep)

\* scanned_path_exists_as_subdirectory, asked of the registry sp
ExistsAsSubdirectory(sp, path) ==
    \E scanned_path \in sp : StartsWith(scanned_path, path \o sep)

scanned_path_exists_as_subdirectory(g, path) ==
    ExistsAsSubdirectory(g.scanned_paths, path)

\* A variant that keeps the hidden names.  C2 tells it from ShallowListing.
ListingWithHidden(path) ==
    IF CanList(path) THEN listdir(path) ELSE {}

\* A variant that forgets the registry.  C8 tells it from record_ignore_path.
ignore_without_registering(g, path) ==
    [g EXCEPT !.global_ignored_paths = @ \cup {path}]

\* A variant that lists a default application as custom too.  C7 tells it
\* from record_application.
record_default_application_twice(g, full_item, casks) ==
    LET g1 == [g EXCEPT !.scanned_paths = @ \cup {full_item}]
        name == basename(full_item)
        app == SubSeq(name, 1, Len(name) - 4)
        listed == [g1 EXCEPT !.global_system_custom_apps = @ \cup {name}]
    IN  IF app \in DEFAULT_APPS_WHITELIST
        THEN [listed EXCEPT !.global_ignored_paths = @ \cup {full_item}]
        ELSE listed

\* The listing both gray recorders take: os.listdir without the hidden
\* names, and nothing when os.listdir raises
ShallowListing(path) ==
    IF CanList(path) THEN {c \in listdir(path) : ~should_ignore_name(c)} ELSE {}

record_ignore_path(g, path) ==
    [register_scanned_path(g, path) EXCEPT !.global_ignored_paths = @ \cup {path}]

record_top_level_gray(g, full_path) ==
    [register_scanned_path(g, full_path) EXCEPT
        !.global_top_level_gray = Put(@, full_path, ShallowListing(full_path))]

\* A variant without the try of lines 421-425: a failing listing leaves the
\* function after the registration, with nothing recorded.  C11 tells it
\* from record_user_gray.
record_user_gray_unguarded(g, user, record_path) ==
    LET user_path == "/Users/" \o user
        path_within_user_str ==
            SubSeq(record_path, Len(user_path) + 1, Len(record_path))
        g1 == register_scanned_path(g, record_path)
        folders == IF user \in DOMAIN g1.global_user_gray
                   THEN g1.global_user_gray[user] ELSE EmptyDict
    IN  IF ~CanList(record_path) THEN g1
        ELSE [g1 EXCEPT !.global_user_gray =
                Put(@, user, Put(folders, path_within_user_str,
                                 {c \in listdir(record_path) : ~should_ignore_name(c)}))]

record_user_gray(g, user, record_path) ==
    LET user_path == "/Users/" \o user
        path_within_user_str ==
            SubSeq(record_path, Len(user_path) + 1, Len(record_path))
        g1 == register_scanned_path(g, record_path)
        folders == IF user \in DOMAIN g1.global_user_gray
                   THEN g1.global_user_gray[user] ELSE EmptyDict
    IN  [g1 EXCEPT !.global_user_gray =
            Put(@, user, Put(folders, path_within_user_str,
                             ShallowListing(record_path)))]

record_application(g, full_item, casks) ==
    LET g1 == register_scanned_path(g, full_item)
        name == basename(full_item)
        app == SubSeq(name, 1, Len(name) - 4)
        base_lower == Lower(app)
    IN  IF \E cask \in casks : base_lower = Lower(cask)
        THEN [g1 EXCEPT !.global_system_brew_apps = @ \cup {name}]
        ELSE IF app \in DEFAULT_APPS_WHITELIST
        THEN record_ignore_path(g1, full_item)
        ELSE [g1 EXCEPT !.global_system_custom_apps = @ \cup {name}]

\* gather_system_applications; os.listdir is not guarded there, so a failure
\* leaves the function (and main) by the exception: raised
gather_system_applications(g, casks) ==
    LET apps_path == "/Applications"
        each(acc, item) ==
            IF EndsWith(item, ".app")
            THEN record_application(acc, join(apps_path, item), casks)
            ELSE acc
    IN  IF ~isdir(apps_path) THEN g
        ELSE IF ~CanList(apps_path) THEN [g EXCEPT !.raised = TRUE]
        ELSE FoldSet(each, g, listdir(apps_path))

\* get_directory_summary: the files counted below path (sizes are not part
\* of the filesystem modelled here)
RECURSIVE get_directory_summary(_)
get_directory_summary(path) ==
    IF ~CanList(path) THEN 0
    ELSE LET names == listdir(path)
             dirs == {d \in names : isdir(join(path, d)) /\ ~should_ignore_name(d)}
             files == {f \in names : /\ ~isdir(join(path, f))
                                     /\ ~should_ignore_name(f)
                                     /\ realpath(join(path, f)) # NoPath}
             below(acc, d) ==
                 IF islink(join(path, d)) THEN acc
                 ELSE acc + get_directory_summary(join(path, d))
         IN  FoldSet(below, Cardinality(files), dirs)

record_user_manual_customization(g, user, folder, target) ==
    LET g1 == register_scanned_path(g, target)
        immediate_count == Cardinality(ShallowListing(target))
        summary == [folder |-> folder,
                    immediate_count |-> immediate_count,
                    file_count |-> get_directory_summary(target)]
        sofar == IF user \in DOMAIN g1.global_user_manual
                 THEN g1.global_user_manual[user] ELSE <<>>
    IN  [g1 EXCEPT !.global_user_manual = Put(@, user, Append(sofar, summary))]

\* The users both per-user passes leave out
SkippedUser(user) ==
    ~isdir(join("/Users", user)) \/ Lower(user) \in {"shared", "guest"}

gather_user_manual_customizations(g) ==
    LET users_dir == "/Users"
        g0 == [g EXCEPT !.global_user_manual = EmptyDict]
        userStep(acc, user) ==
            LET folderStep(a, folder) ==
                    LET target == join(join(users_dir, user), folder)
                    IN  IF isdir(target)
                        THEN record_user_manual_customization(a, user, folder, target)
                        ELSE a
            IN  IF SkippedUser(user) THEN acc
                ELSE FoldSeq(folderStep, acc, INCLUDE_USER_FOLDERS)
    IN  IF ~CanList(users_dir) THEN g0
        ELSE FoldSet(userStep, g0, listdir(users_dir))

\* gather_user_gray_area, lines 388-398: one configured location of one user
ScanGrayFolder(g, user, gray_folder) ==
    LET scan_path == join(join("/Users", user), gray_folder)
        each(acc, item) ==
            IF item \in IGNORE_USER_FOLDERS \/ StartsWith(item, "com.")
            THEN record_ignore_path(acc, join(scan_path, item))
            ELSE IF isdir(join(scan_path, item))
            THEN record_user_gray(acc, user, join(scan_path, item))
            ELSE acc
    IN  IF g.raised \/ ~isdir(scan_path) THEN g
        ELSE IF ~CanList(scan_path) THEN [g EXCEPT !.raised = TRUE]
        ELSE FoldSet(each, g, listdir(scan_path))

\* gather_user_gray_area, lines 401-407: the entries of one user's home
ScanHome(g, user) ==
    LET user_path == join("/Users", user)
        each(acc, item) ==
            IF \/ \E i \in 1..Len(INCLUDE_USER_FOLDERS) : INCLUDE_USER_FOLDERS[i] = item
               \/ item \in IGNORE_USER_FOLDERS
            THEN acc
            ELSE IF isdir(join(user_path, item))
            THEN record_user_gray(acc, user, join(user_path, item))
            ELSE acc
    IN  IF g.raised THEN g
        ELSE IF ~CanList(user_path) THEN [g EXCEPT !.raised = TRUE]
        ELSE FoldSet(each, g, listdir(user_path))

\* gather_user_gray_area, lines 383-407: one user
GrayUser(g, user) ==
    IF g.raised \/ SkippedUser(user) THEN g
    ELSE ScanHome(FoldSeq(LAMBDA acc, gf : ScanGrayFolder(acc, user, gf),
                          g, SCAN_USER_GRAY_AREA_FOLDERS),
                  user)

\* gather_user_gray_area with os.listdir("/Users") in the order users; the
\* first exception ends the function, which swallows it
gather_user_gray_area(g, users) ==
    IF ~CanList("/Users") THEN g
    ELSE [FoldSeq(GrayUser, g, users) EXCEPT !.raised = FALSE]

gather_top_level_gray_area(g) ==
    LET listed(full_path, dirs) ==
            \E i \in 1..Len(dirs) : StartsWith(full_path, dirs[i])
        each(acc, entry) ==
            LET full_path == join("/", entry)
            IN  IF ~isdir(full_path) THEN acc
                ELSE IF \/ listed(full_path, IGNORED_ROOT_DIRS)
                        \/ listed(full_path, INCLUDE_ROOT_DIRS)
                THEN acc
                ELSE record_top_level_gray(acc, full_path)
    IN  IF ~CanList("/") THEN g
        ELSE FoldSet(each, g, listdir("/"))

\* Every order in which a listing can return the names of S
RECURSIVE PermSeqs(_)
PermSeqs(S) ==
    IF S = {} THEN {<<>>}
    ELSE UNION {{<<x>> \o t : t \in PermSeqs(S \ {x})} : x \in S}

CaskLists == {{}, {"bar"}}

\* What the registry-only runs register and ask about
RegistryInputs == {"/", "/a", "/a/b", "/a/b/", "/a/bc", "/a/b/c", "/ab"}

QueryInputs == {"/", "/a", "/a/b", "/a/bc", "/a/b/c", "/ab", "/b"}

(***************************************************************************)
(* Initial states.                                                         *)
(***************************************************************************)
NoCur == [active |-> FALSE, root |-> "", todo |-> {}, new_dirs |-> <<>>]

NoQuery == [asked |-> FALSE, registry |-> {}, path |-> "", result |-> FALSE]

NoFirstRun == [done |-> FALSE, globals |-> [scanned_paths |-> {}]]

InitCommon ==
    /\ SetGlobalsInit
    /\ stack = <<>>
    /\ cur = NoCur
    /\ walked = EmptyDict
    /\ evalLog = {}
    /\ query = NoQuery
    /\ firstRun = NoFirstRun

\* main() starts
Init ==
    /\ fs \in FsChoices
    /\ brew_casks \in CaskLists
    /\ base = "/"
    /\ pc = "main"
    /\ scanned_paths = {}
    /\ InitCommon

\* crawl_remaining_paths(base) is called on its own, with some registry
InitCrawl ==
    /\ fs \in FsChoices
    /\ brew_casks = {}
    /\ base \in CrawlBases
    /\ pc = "crawl"
    /\ scanned_paths \in {R \in SUBSET RegistryCandidates :
                             Cardinality(R) <= MaxPreRegistered}
    /\ InitCommon

\* The registry functions are called on their own
InitRegistry ==
    /\ fs = [links |-> {}, unreadable |-> {}]
    /\ brew_casks = {}
    /\ base = "/"
    /\ pc = "registry"
    /\ scanned_paths = {}
    /\ InitCommon

(***************************************************************************)
(* main(): the area summarizers, in the order of lines 602-617.            *)
(***************************************************************************)
inputs == <<fs, brew_casks, base>>
crawlVars == <<stack, cur, walked, evalLog>>

\* lines 603-604
IgnoreRoots ==
    /\ pc = "main"
    /\ SetGlobals(FoldSeq(record_ignore_path, Globals, IGNORED_ROOT_DIRS))
    /\ pc' = "apps"
    /\ UNCHANGED <<inputs, firstRun, crawlVars, query>>

\* line 612; an exception of os.listdir ends main
GatherSystemApplications ==
    /\ pc = "apps"
    /\ LET g == gather_system_applications(Globals, brew_casks)
       IN  /\ SetGlobals(g)
           /\ pc' = IF g.raised THEN "crashed" ELSE "manual"
    /\ UNCHANGED <<inputs, firstRun, crawlVars, query>>

\* line 614
GatherUserManualCustomizations ==
    /\ pc = "manual"
    /\ SetGlobals(gather_user_manual_customizations(Globals))
    /\ pc' = "usergray"
    /\ UNCHANGED <<inputs, firstRun, crawlVars, query>>

\* line 616
GatherUserGrayArea ==
    /\ pc = "usergray"
    /\ \E users \in PermSeqs(listdir("/Users")) :
          SetGlobals(gather_user_gray_area(Globals, users))
    /\ pc' = "toplevel"
    /\ UNCHANGED <<inputs, firstRun, crawlVars, query>>

\* line 617
GatherTopLevelGrayArea ==
    /\ pc = "toplevel"
    /\ SetGlobals(gather_top_level_gray_area(Globals))
    /\ pc' = "crawl"
    /\ UNCHANGED <<inputs, firstRun, crawlVars, query>>

\* line 624; the reports are files, outside this model's state
WriteReports ==
    /\ pc = "crawled"
    /\ pc' = "done"
    /\ UNCHANGED <<inputs, firstRun, crawlVars, query, scanned_paths,
                   global_system_custom_apps, global_system_brew_apps,
                   global_user_manual, global_user_gray, global_top_level_gray,
                   global_remaining_gray, global_ignored_paths>>

(***************************************************************************)
(* crawl_remaining_paths(base): os.walk(base, topdown=True) and the loop   *)
(* body of lines 135-185.  stack holds the directories os.walk has still   *)
(* to enter, the next one first.                                           *)
(***************************************************************************)
\* Whether some registered path lies strictly below p, by components
HasRegisteredDescendant(sp, p) == \E q \in sp : IsStrictDescendant(q, p)

\* The n-th evaluation of path in the given role (the crawl's base and each
\* root os.walk yields at lines 136-147, each child at lines 162-184), with
\* what held of path when it was made
Event(path, role, d_full, action) ==
    [path |-> path, as |-> role, link |-> islink(d_full),
     registered |-> path \in scanned_paths,
     hasDesc |-> HasRegisteredDescendant(scanned_paths, path),
     action |-> action,
     n |-> 1 + Cardinality({e \in evalLog : e.path = path /\ e.as = role})]

Count(d, k) == IF k \in DOMAIN d THEN d[k] ELSE 0

\* A variant that leaves os.walk nothing to descend into.  C6 tells it from
\* Descend.
DescendNowhere(root, dirs) == <<>>

\* A variant that follows symbolic links, as os.walk(followlinks=True).  C12
\* tells it from Descend.
DescendThroughLinks(root, dirs) == [i \in 1..Len(dirs) |-> join(root, dirs[i])]

\* os.walk recurses into the names left in dirs, symbolic links excepted
Descend(root, dirs) ==
    SelectSeq([i \in 1..Len(dirs) |-> join(root, dirs[i])],
              LAMBDA new_path : ~islink(new_path))

\* line 621, or the call itself
CrawlStart ==
    /\ pc = "crawl"
    /\ pc' = "walking"
    /\ stack' = <<base>>
    /\ UNCHANGED <<inputs, firstRun, cur, walked, evalLog, query, scanned_paths,
                   global_system_custom_apps, global_system_brew_apps,
                   global_user_manual, global_user_gray, global_top_level_gray,
                   global_remaining_gray, global_ignored_paths>>

\* os.walk enters the next directory and, if it can list it, yields it:
\* lines 134-147 run for it
WalkYield ==
    /\ pc = "walking"
    /\ ~cur.active
    /\ stack # <<>>
    /\ LET root == Head(stack)
           dirs == {n \in listdir(root) : isdir(join(root, n))}
           normalized_root == normpath(root)
       IN  IF ~CanList(root)
           THEN /\ stack' = Tail(stack)
                /\ UNCHANGED <<cur, walked, evalLog>>
           ELSE /\ walked' = Put(walked, root, Count(walked, root) + 1)
                /\ IF islink(root)
                   THEN /\ \E order \in PermSeqs(dirs) :
                              stack' = Descend(root, order) \o Tail(stack)
                        /\ evalLog' = evalLog \cup
                              {Event(normalized_root, "root", root, "continue")}
                        /\ cur' = cur
                   ELSE IF normalized_root \in scanned_paths
                   THEN /\ stack' = Tail(stack)
                        /\ evalLog' = evalLog \cup
                              {Event(normalized_root, "root", root, "skip")}
                        /\ cur' = cur
                   ELSE /\ stack' = Tail(stack)
                        /\ evalLog' = evalLog \cup
                              {Event(normalized_root, "root", root, "enter")}
                        /\ cur' = [active |-> TRUE, root |-> root,
                                   todo |-> dirs, new_dirs |-> <<>>]
    /\ UNCHANGED <<inputs, firstRun, pc, query, scanned_paths,
                   global_system_custom_apps, global_system_brew_apps,
                   global_user_manual, global_user_gray, global_top_level_gray,
                   global_remaining_gray, global_ignored_paths>>

\* lines 162-184 for one d of dirs: what becomes of the globals
EvalGlobals(g, normalized_d) ==
    IF normalized_d \in g.scanned_paths THEN g
    ELSE IF scanned_path_exists_as_subdirectory(g, normalized_d) THEN g
    ELSE IF StartsWith(normalized_d, "/Users/")
    THEN record_user_gray(g, Split(normalized_d)[3], normalized_d)
    ELSE record_top_level_gray(g, normalized_d)

\* lines 162-184 for one d of dirs: which of the three branches is taken
EvalAction(g, normalized_d) ==
    IF normalized_d \in g.scanned_paths THEN "skip"
    ELSE IF scanned_path_exists_as_subdirectory(g, normalized_d) THEN "drill"
    ELSE "record"

\* One iteration of the loop of line 161
EvalChild ==
    /\ pc = "walking"
    /\ cur.active
    /\ \E d \in cur.todo :
          LET d_full == join(cur.root, d)
              normalized_d == normpath(d_full)
              action == EvalAction(Globals, normalized_d)
          IN  /\ SetGlobals(EvalGlobals(Globals, normalized_d))
              /\ cur' = [cur EXCEPT
                            !.todo = @ \ {d},
                            !.new_dirs = IF action = "drill"
                                         THEN Append(@, d) ELSE @]
              /\ evalLog' = evalLog \cup
                                   {Event(normalized_d, "child", d_full, action)}
    /\ UNCHANGED <<inputs, firstRun, pc, query, stack, walked>>

\* line 185, and os.walk going on with what is left in dirs
FinishDir ==
    /\ pc = "walking"
    /\ cur.active
    /\ cur.todo = {}
    /\ stack' = Descend(cur.root, cur.new_dirs) \o stack
    /\ cur' = NoCur
    /\ UNCHANGED <<inputs, firstRun, pc, query, walked, evalLog, scanned_paths,
                   global_system_custom_apps, global_system_brew_apps,
                   global_user_manual, global_user_gray, global_top_level_gray,
                   global_remaining_gray, global_ignored_paths>>

\* lines 186-187: os.walk is exhausted
CrawlComplete ==
    /\ pc = "walking"
    /\ ~cur.active
    /\ stack = <<>>
    /\ pc' = "crawled"
    /\ UNCHANGED <<inputs, firstRun, crawlVars, query, scanned_paths,
                   global_system_custom_apps, global_system_brew_apps,
                   global_user_manual, global_user_gray, global_top_level_gray,
                   global_remaining_gray, global_ignored_paths>>

\* crawl_remaining_paths(base) is called once more, on the same tree, with
\* the globals as the first call left them
CrawlAgain ==
    /\ pc = "crawled"
    /\ ~firstRun.done
    /\ firstRun' = [done |-> TRUE, globals |-> Globals]
    /\ pc' = "crawl"
    /\ walked' = EmptyDict
    /\ evalLog' = {}
    /\ UNCHANGED <<inputs, stack, cur, query, scanned_paths,
                   global_system_custom_apps, global_system_brew_apps,
                   global_user_manual, global_user_gray, global_top_level_gray,
                   global_remaining_gray, global_ignored_paths>>

(***************************************************************************)
(* The registry functions called on their own.                             *)
(***************************************************************************)
Register ==
    /\ pc = "registry"
    /\ Cardinality(scanned_paths) < MaxRegistered
    /\ \E path \in RegistryInputs :
          SetGlobals(register_scanned_path(Globals, path))
    /\ UNCHANGED <<inputs, firstRun, pc, crawlVars, query>>

Query ==
    /\ pc = "registry"
    /\ \E path \in QueryInputs :
          query' = [asked |-> TRUE, registry |-> scanned_paths, path |-> path,
                    result |-> scanned_path_exists_as_subdirectory(Globals, path)]
    /\ UNCHANGED <<inputs, firstRun, pc, crawlVars, scanned_paths,
                   global_system_custom_apps, global_system_brew_apps,
                   global_user_manual, global_user_gray, global_top_level_gray,
                   global_remaining_gray, global_ignored_paths>>

(***************************************************************************)
(* Specifications: a whole run of main, a call of crawl_remaining_paths,   *)
(* and calls of the registry functions.                                    *)
(***************************************************************************)
Next ==
    \/ IgnoreRoots
    \/ GatherSystemApplications
    \/ GatherUserManualCustomizations
    \/ GatherUserGrayArea
    \/ GatherTopLevelGrayArea
    \/ CrawlStart
    \/ WalkYield
    \/ EvalChild
    \/ FinishDir
    \/ CrawlComplete
    \/ WriteReports

Spec == Init /\ [][Next]_vars

NextCrawl == CrawlStart \/ WalkYield \/ EvalChild \/ FinishDir \/ CrawlComplete

SpecCrawl == InitCrawl /\ [][NextCrawl]_vars

NextCrawlTwice == NextCrawl \/ CrawlAgain

SpecCrawlTwice == InitCrawl /\ [][NextCrawlTwice]_vars

NextRegistry == Register \/ Query

SpecRegistry == InitRegistry /\ [][NextRegistry]_vars

(***************************************************************************)
(* What the records of a state are about.                                  *)
(***************************************************************************)
\* The folder paths of the ManualSummary records
ManualPaths ==
    UNION {{join(join("/Users", u), global_user_manual[u][i].folder) :
               i \in 1..Len(global_user_manual[u])} :
           u \in DOMAIN global_user_manual}

\* The directory paths of the GrayListing records
UserGrayPaths ==
    UNION {{("/Users/" \o u) \o rel : rel \in DOMAIN global_user_gray[u]} :
           u \in DOMAIN global_user_gray}

GrayPaths ==
    UserGrayPaths \cup DOMAIN global_top_level_gray \cup DOMAIN global_remaining_gray

\* The listing recorded for p, a path of GrayPaths
GrayListingOf(p) ==
    IF p \in DOMAIN global_top_level_gray THEN global_top_level_gray[p]
    ELSE IF p \in DOMAIN global_remaining_gray THEN global_remaining_gray[p]
    ELSE LET u == CHOOSE u \in DOMAIN global_user_gray :
                     \E rel \in DOMAIN global_user_gray[u] : ("/Users/" \o u) \o rel = p
             rel == CHOOSE rel \in DOMAIN global_user_gray[u] : ("/Users/" \o u) \o rel = p
         IN  global_user_gray[u][rel]

\* The applications the inventory lists as custom or as brew casks
ApplicationPaths ==
    {join("/Applications", a) :
        a \in global_system_custom_apps \cup global_system_brew_apps}

\* The directories in p, and its entries that are not hidden, as the
\* filesystem has them (none when p cannot be listed)
ChildDirs(p) ==
    IF CanList(p) THEN {n \in Disk.entries[realpath(p)] : isdir(join(p, n))} ELSE {}

\* The names in p (none when p is no directory)
ChildNames(p) == IF isdir(p) THEN Disk.entries[realpath(p)] ELSE {}

VisibleEntries(p) ==
    IF CanList(p) THEN {n \in Disk.entries[realpath(p)] : Char(n, 1) # "."} ELSE {}

\* Some root os.walk yielded, or some directory the crawl evaluated, lies
\* strictly below p
VisitedBelow(p) ==
    \/ \E r \in DOMAIN walked : IsStrictDescendant(normpath(r), p)
    \/ \E e \in evalLog : IsStrictDescendant(e.path, p)

\* The evaluations of the crawl's base, and of the entries of a directory
IsBaseEvent(e) == e.as = "root" /\ e.path = normpath(base)
IsChildEvent(e) == e.as = "child"

(***************************************************************************)
(* C1.  A directory that is registered when the crawl evaluates it gets no *)
(* record from the crawl, and nothing below it is walked or evaluated.     *)
(***************************************************************************)
C1_SkipRegistered ==
    \A e \in evalLog :
        (IsBaseEvent(e) \/ IsChildEvent(e)) /\ e.registered
            => /\ e.path \notin GrayPaths
               /\ ~VisitedBelow(e.path)

\* The same where the registry is consulted for the directory (line 144 for
\* a root that is no symbolic link, line 164 for an entry)
C1_SkipWhereRegistryIsAsked ==
    \A e \in evalLog :
        e.registered /\ e.action # "continue"
            => /\ e.action = "skip"
               /\ e.path \notin GrayPaths
               /\ ~VisitedBelow(e.path)

C1_Witness ==
    /\ pc = "crawled"
    /\ \E e \in evalLog :
          /\ e.registered /\ e.action = "skip"
          /\ ChildDirs(e.path) # {}

(***************************************************************************)
(* C2.  A directory that is, when the crawl evaluates it, neither          *)
(* registered nor above a registered path gets one shallow listing of its  *)
(* entries that are not hidden, and nothing below it is walked or          *)
(* evaluated.                                                              *)
(***************************************************************************)
RecordedOnce(e) ==
    /\ e.action = "record"
    /\ e.n = 1
    /\ e.path \in GrayPaths
    /\ GrayListingOf(e.path) = VisibleEntries(e.path)
    /\ ~VisitedBelow(e.path)

FollowsRule(e) ==
    e.action = (IF e.registered THEN "skip"
                ELSE IF e.hasDesc THEN "drill" ELSE "record")

C4_SymlinkIsSkipped ==
    \A e \in evalLog :
        (IsBaseEvent(e) \/ IsChildEvent(e)) /\ e.link
            => /\ e.path \notin GrayPaths
               /\ (e.path \in scanned_paths => e.registered)
               /\ ~VisitedBelow(e.path)

\* The entry form alone: a symbolic link met as an entry gets no record
C4_SymlinkEntryIsSkipped ==
    \A e \in evalLog : IsChildEvent(e) /\ e.link => e.path \notin GrayPaths

(***************************************************************************)
(* C5.  Of the states Skip, Symlink, Drill and Record exactly one applies  *)
(* to each directory the crawl evaluates (its base included), the crawl    *)
(* does what that state says, and it never both records and drills a       *)
(* directory.                                                              *)
(***************************************************************************)
StateOf(e) ==
    IF e.registered THEN "Skip"
    ELSE IF e.link THEN "Symlink"
    ELSE IF e.hasDesc THEN "Drill"
    ELSE "Record"

\* What the crawl did with the directory of e: a link left in dirs is not
\* entered by os.walk, and a root that is a link is left by "continue"
Taken(e) ==
    IF e.action = "skip" THEN "Skip"
    ELSE IF e.action = "record" THEN "Record"
    ELSE IF e.action = "drill" THEN (IF e.link THEN "Skip" ELSE "Drill")
    ELSE IF e.action = "enter" THEN "Drill"
    ELSE "Continue"

DoesAsItsStateSays(e) ==
    Taken(e) = (IF StateOf(e) = "Symlink" THEN "Skip" ELSE StateOf(e))

\* C5, of the directories met as entries of a walked directory
C5_OneStateOneActionOfEntries ==
    \A e \in evalLog : IsChildEvent(e) => DoesAsItsStateSays(e)

\* C5, of every directory evaluated
C5_OneStateOneAction ==
    /\ \A e \in evalLog :
          IsBaseEvent(e) \/ IsChildEvent(e) => DoesAsItsStateSays(e)
    /\ \A e1, e2 \in evalLog :
          e1.path = e2.path => ~(e1.action = "record" /\ e2.action \in {"drill", "enter"})

(***************************************************************************)
(* C6.  When a run ends, the folders of the manual summaries, the          *)
(* directories of the gray listings, the ignored paths and the registered  *)
(* directories the crawl skipped cover every directory that can be reached *)
(* from the root without following a symbolic link, each exactly once.     *)
(***************************************************************************)
SkippedRegistered == {e.path : e \in {x \in evalLog : x.registered /\ x.action = "skip"}}

CoverSet == ManualPaths \cup GrayPaths \cup global_ignored_paths \cup SkippedRegistered

\* The record of r accounts for the directory d: d is r or lies below r
Covers(r, d) == r = d \/ IsStrictDescendant(d, r)

\* The directories reached from the root with no symbolic link followed:
\* the directories themselves, not the links to them
ReachableDirs == {d \in DOMAIN Disk.kind : Disk.kind[d] = "dir"}

Holders(p, families) == {i \in 1..Len(families) : p \in families[i]}

\* As claimed: a manual summary, a gray listing or the ignored set
C7_ExactlyOneOfThree ==
    pc = "done" =>
        \A p \in scanned_paths :
            Cardinality(Holders(p, <<ManualPaths, GrayPaths, global_ignored_paths>>)) = 1

\* As amended: or the inventory's list of custom or of brew applications
C7_ExactlyOneOfFour ==
    pc = "done" =>
        \A p \in scanned_paths :
            Cardinality(Holders(p, <<ManualPaths, GrayPaths, global_ignored_paths,
                                     ApplicationPaths>>)) = 1

C7_Witness ==
    /\ pc = "done"
    /\ scanned_paths \cap ManualPaths # {}
    /\ scanned_paths \cap UserGrayPaths # {}
    /\ scanned_paths \cap DOMAIN global_top_level_gray # {}
    /\ "/Applications/Safari.app" \in scanned_paths \cap global_ignored_paths
    /\ "/Applications/Foo.app" \in scanned_paths \cap ApplicationPaths
    /\ "/Applications/Bar.app" \in scanned_paths \cap ApplicationPaths
    /\ \E e \in evalLog : e.action = "record"

(***************************************************************************)
(* C8.  In every state of a run, the subject of every record (manual       *)
(* summary, gray listing, ignored path) is registered.                     *)
(***************************************************************************)
C8_RecordedIsRegistered ==
    ManualPaths \cup GrayPaths \cup global_ignored_paths \subseteq scanned_paths

C8_Witness ==
    /\ pc = "done"
    /\ ManualPaths # {}
    /\ UserGrayPaths # {}
    /\ DOMAIN global_top_level_gray # {}
    /\ global_ignored_paths # {}
    /\ \E e \in evalLog : e.action = "record" /\ e.path \in GrayPaths

(***************************************************************************)
(* C9.  With B alone registered, scanned_path_exists_as_subdirectory(A) is *)
(* true exactly of the strict ancestors A of B, the root "/" among them.   *)
(***************************************************************************)
C9_DescendantQuery ==
    query.asked /\ Cardinality(query.registry) = 1 =>
        LET B == CHOOSE b \in query.registry : TRUE
        IN  query.result = IsStrictDescendant(B, query.path)

\* The same for every A but the root
C9_DescendantQueryBelowRoot ==
    query.asked /\ Cardinality(query.registry) = 1 /\ query.path # sep =>
        LET B == CHOOSE b \in query.registry : TRUE
        IN  query.result = IsStrictDescendant(B, query.path)

(***************************************************************************)
(* C10.  Every entry gather_user_gray_area examines, in a configured       *)
(* location or in the home of a user, whose name is in IGNORE_USER_FOLDERS *)
(* is registered and ignored, nothing below it is walked or evaluated, and *)
(* it has no gray listing when the run ends.                               *)
(***************************************************************************)
ExaminedUsers == {u \in listdir("/Users") : ~SkippedUser(u)}

\* The excluded entries of the configured locations (lines 388-394)
ExcludedInLocations ==
    UNION {UNION {{join(join(join("/Users", u), SCAN_USER_GRAY_AREA_FOLDERS[i]), item) :
                      item \in {x \in ChildNames(join(join("/Users", u),
                                                     SCAN_USER_GRAY_AREA_FOLDERS[i])) :
                                   x \in IGNORE_USER_FOLDERS}} :
                  i \in 1..Len(SCAN_USER_GRAY_AREA_FOLDERS)} :
           u \in ExaminedUsers}

\* The excluded entries of the homes (lines 401-403)
ExcludedInHomes ==
    UNION {{join(join("/Users", u), item) :
               item \in {x \in ChildNames(join("/Users", u)) : x \in IGNORE_USER_FOLDERS}} :
           u \in ExaminedUsers}

IgnoredForGood(p) ==
    /\ p \in scanned_paths
    /\ p \in global_ignored_paths
    /\ p \notin GrayPaths
    /\ ~VisitedBelow(p)

\* Every listing succeeds in the runs this looks at, so that every entry is examined
C10_ExcludedIsIgnored ==
    pc = "done" /\ fs.unreadable = {} =>
        \A p \in ExcludedInLocations \cup ExcludedInHomes : IgnoredForGood(p)

\* The same of the configured locations alone
C10_ExcludedInLocationsIsIgnored ==
    pc = "done" /\ fs.unreadable = {} =>
        \A p \in ExcludedInLocations : IgnoredForGood(p)

(***************************************************************************)
(* C11.  A listing that fails during the crawl counts as an empty listing  *)
(* and never ends the crawl: a directory the crawl records whose listing   *)
(* fails is recorded with an empty listing and registered, every directory *)
(* beside it is evaluated all the same, and the crawl completes.           *)
(***************************************************************************)
\* os.listdir(p) raises
ListingFails(p) == isdir(p) /\ realpath(p) \in Disk.unreadable

RecordedEmpty(e) ==
    /\ e.path \in GrayPaths
    /\ GrayListingOf(e.path) = {}
    /\ e.path \in scanned_paths

\* Every directory in a directory the crawl entered has been evaluated
SiblingsEvaluated ==
    \A e \in evalLog :
        e.action = "enter" =>
            \A c \in ChildDirs(e.path) :
                \E e2 \in evalLog : IsChildEvent(e2) /\ e2.path = join(e.path, c)

FailedListingIsEmpty ==
    /\ \A e \in evalLog :
          e.action = "record" /\ ListingFails(e.path) => RecordedEmpty(e)
    /\ pc = "crawled" => SiblingsEvaluated

\* What is left of the crawl, as a number: a directory os.walk has not yet
\* yielded outweighs everything the loop can still do with one directory
WalkWeight == 3 * Cardinality(TreeDirs) + 2

CrawlRank ==
    (IF pc = "crawl" THEN 3 ELSE IF pc = "walking" THEN 1 ELSE 0)
    + WalkWeight * (Cardinality(TreeDirs) + 1 - Cardinality(DOMAIN walked))
    + Len(stack) + 3 * Cardinality(cur.todo) + 2 * Len(cur.new_dirs)
    + (IF cur.active THEN 1 ELSE 0)

\* The crawl completes: until it has, the guard of one of its steps holds
\* (beyond its guard a step only assigns, or chooses from a set that is not
\* empty), and every step lowers CrawlRank, which is never negative
CrawlGoesOn ==
    \/ pc = "crawled"
    \/ pc = "crawl"                                          \* CrawlStart
    \/ pc = "walking" /\ ~cur.active /\ stack # <<>>         \* WalkYield
    \/ pc = "walking" /\ cur.active /\ cur.todo # {}         \* EvalChild
    \/ pc = "walking" /\ cur.active /\ cur.todo = {}         \* FinishDir
    \/ pc = "walking" /\ ~cur.active /\ stack = <<>>         \* CrawlComplete

CrawlRankIsNatural == CrawlRank \in Nat

CrawlCompletes ==
    [](CrawlGoesOn /\ CrawlRankIsNatural) /\ [][CrawlRank' < CrawlRank]_vars

C11_FailedListingIsEmptyAndCrawlCompletes ==
    []FailedListingIsEmpty /\ CrawlCompletes

\* Scenario C: Documents cannot be listed, its sibling Projects is recorded
C11_Witness ==
    /\ pc = "crawled"
    /\ base = "/Users/alice"
    /\ \E e \in evalLog :
          /\ e.path = "/Users/alice/Documents" /\ e.action = "record"
          /\ ListingFails(e.path) /\ ChildNames(e.path) # {}
          /\ RecordedEmpty(e)
    /\ "/Users/alice/Projects" \in GrayPaths
    /\ SiblingsEvaluated

(***************************************************************************)
(* C12.  On every tree, with symbolic links or without, and with any       *)
(* registry, the crawl completes, and it visits each directory at most     *)
(* once: os.walk yields no directory twice, and no directory is skipped,   *)
(* drilled or recorded more than once.                                     *)
(***************************************************************************)
WalkedOnce ==
    /\ \A r \in DOMAIN walked : walked[r] = 1
    /\ \A r1, r2 \in DOMAIN walked :
          normpath(r1) = normpath(r2) \/ realpath(r1) = realpath(r2) => r1 = r2

Classifies(e) == e.action \in {"skip", "drill", "record"}

ClassifiedOnce ==
    /\ \A e \in evalLog : e.n = 1
    /\ \A e1, e2 \in evalLog :
          Classifies(e1) /\ Classifies(e2) /\ e1.path = e2.path => e1 = e2

C12_CrawlCompletesVisitingOnce ==
    [](WalkedOnce /\ ClassifiedOnce) /\ CrawlCompletes

\* A crawl from the root of a tree with both links, some of it registered
C12_Witness ==
    /\ pc = "crawled"
    /\ base = sep
    /\ Cardinality(fs.links) = 2
    /\ Cardinality(DOMAIN walked) >= 3
    /\ \E e \in evalLog : e.action = "skip"
    /\ \E e \in evalLog : e.action = "drill"
    /\ \E e \in evalLog : e.action = "record" /\ e.link

(***************************************************************************)
(* C13.  The crawl stores the shallow listing of every directory it        *)
(* records in global_remaining_gray: when the run ends it holds one entry  *)
(* for each of them, which write_reports turns into a report.              *)
(***************************************************************************)
CrawlRecorded == {e.path : e \in {x \in evalLog : x.action = "record"}}

C13_CrawlFillsRemainingGray ==
    pc = "done" =>
        /\ DOMAIN global_remaining_gray = CrawlRecorded
        /\ \A p \in CrawlRecorded : global_remaining_gray[p] = VisibleEntries(p)

(***************************************************************************)
(* C14.  What the crawl records never overlaps what is registered: when it *)
(* records a directory, no registered path lies strictly below it and none *)
(* lies strictly above it at or below the crawl's base; so when the crawl  *)
(* ends no recorded directory is above or below another registered path.   *)
(***************************************************************************)
AtOrBelowBase(q) == q = normpath(base) \/ IsStrictDescendant(q, normpath(base))

\* C14, at the moment of the record.  The registry only grows, and an event
\* keeps what lay below its directory when it was evaluated
C14_RecordedApartFromRegistered ==
    \A e \in evalLog :
        e.action = "record" =>
            /\ ~e.hasDesc
            /\ \A q \in scanned_paths :
                  AtOrBelowBase(q) => ~IsStrictDescendant(e.path, q)

\* C14, with its consequence for the end of the crawl
C14_RecordedApartAtTheEnd ==
    /\ C14_RecordedApartFromRegistered
    /\ pc = "crawled" =>
          \A e \in evalLog :
              e.action = "record" =>
                  \A q \in scanned_paths :
                      ~IsStrictDescendant(e.path, q) /\ ~IsStrictDescendant(q, e.path)

\* The same of the crawls whose base is no symbolic link
C14_RecordedApartBelowPlainBase ==
    ~islink(base) => C14_RecordedApartAtTheEnd

(***************************************************************************)
(* C15.  The crawl is idempotent: run a second time over the same tree,    *)
(* with the registry the first crawl left, it records no directory,        *)
(* registers no path and leaves the gray maps and the registry as they     *)
(* were.                                                                   *)
(***************************************************************************)
C15_SecondCrawlChangesNothing ==
    firstRun.done =>
        /\ \A e \in evalLog : e.action # "record"
        /\ Globals = firstRun.globals

\* The second crawl has ended, and it skipped what the first one recorded
C15_Witness ==
    /\ firstRun.done
    /\ pc = "crawled"
    /\ scanned_paths = firstRun.globals.scanned_paths
    /\ \E e \in evalLog :
          /\ e.action = "skip"
          /\ e.path \in GrayPaths
    /\ \E e \in evalLog : e.action = "drill"

====
